---- MODULE Spec2Model ----
(***************************************************************************)
(* The in-memory banner storage of banners_rotator (src/src/storage.rs):   *)
(* InMemoryStorage with its banners, its category index and its global     *)
(* cumulative weight table, add_banner and get_banner_html.                *)
(*                                                                         *)
(* Both operations take `&mut self`: a call has exclusive access to the    *)
(* storage for its whole duration, so calls made by several callers run    *)
(* one after another in some order and each call is one step here.  The    *)
(* two sources of nondeterminism of get_banner_html are kept: the random   *)
(* number drawn by select_uniformly and the iteration order of the HashSet *)
(* of filtered banner indexes.                                             *)
(*                                                                         *)
(* Indexes are 0-based as in the source; a Vec v is a sequence and v[i] of *)
(* the source is At(v, i).  Option values are sequences of length <= 1.    *)
(***************************************************************************)
EXTENDS Integers, Sequences, FiniteSets, TLC

\* ---------------------------------------------------------------- bounds
\* the banners of a storage, the shows_amount of a record, and the sum of
\* the shows_amount of the banners of a storage
MaxBanners == 2
MaxAmount == 2
MaxWeight == 3
\* the weights of a table of the standalone selector (util::cumulative_weights)
MaxTableLen == 3

Amounts == 0..MaxAmount
\* the url and the category list of the records add_banner is called with: two
\* urls, two categories, a record of both categories, a record that lists a
\* category twice, and records without url, without categories, without both
Records == {
    [url |-> "a", categories |-> <<"x">>],
    [url |-> "b", categories |-> <<"y">>],
    [url |-> "a", categories |-> <<"x", "y">>],
    [url |-> "b", categories |-> <<"x", "x">>],
    [url |-> "", categories |-> <<"x">>],
    [url |-> "a", categories |-> <<>>],
    [url |-> "", categories |-> <<>>] }
\* category lists of requests ("z" is never the category of a banner)
GetCategories == {<<>>, <<"x">>, <<"y">>, <<"x", "y">>, <<"x", "x">>, <<"z">>, <<"z", "y">>}

\* ------------------------------------------------------------- constants
HTML_PREFIX == "<html><body><img src=\""
HTML_SUFFIX == "\"/></body></html>"

None == <<>>
Some(x) == <<x>>
IsSome(o) == Len(o) = 1
Unwrap(o) == o[1]

At(v, i) == v[i + 1]
Last(v) == v[Len(v)]

VARIABLES
    banners,             \* InMemoryStorage.banners: Vec<Banner>
    index,               \* InMemoryStorage.index: HashMap<Category, Vec<BannerIdx>>
    cumulative_weights,  \* InMemoryStorage.cumulative_weights
    last,                \* history: the last call, its arguments and its result
    inserted,            \* history: the category list each banner was added with
    shown,               \* history: per banner, the calls that returned its markup
    run,                 \* history: the current run of equal one-category requests
    util                 \* a table of util::cumulative_weights and the last call on it

vars == <<banners, index, cumulative_weights, last, inserted, shown, run, util>>

\* ---------------------------------------------------------------- Banner
\* mutant: the new banner starts with one impression more than declared
Banner_new_one_more(url, shows_amount) ==
    [url |-> url, shows_amount |-> shows_amount, shows_left |-> shows_amount + 1]

Banner_new(url, shows_amount) ==
    [url |-> url, shows_amount |-> shows_amount, shows_left |-> shows_amount]

can_show(banner) == banner.shows_left > 0

\* mutant: show_html without the can_show check
Banner_show_html_unchecked(banner) ==
    [banner |-> [banner EXCEPT !.shows_left = banner.shows_left - 1],
     html |-> Some(HTML_PREFIX \o banner.url \o HTML_SUFFIX)]

\* mutant: show_html takes two impressions at once
Banner_show_html_twice(banner) ==
    IF ~can_show(banner)
    THEN [banner |-> banner, html |-> None]
    ELSE [banner |-> [banner EXCEPT !.shows_left = banner.shows_left - 2],
          html |-> Some(HTML_PREFIX \o banner.url \o HTML_SUFFIX)]

\* the banner after show_html and the Option<String> it returns; the u32
\* subtraction is reached with shows_left > 0 only and cannot underflow
Banner_show_html(banner) ==
    IF ~can_show(banner)
    THEN [banner |-> banner, html |-> None]
    ELSE [banner |-> [banner EXCEPT !.shows_left = banner.shows_left - 1],
          html |-> Some(HTML_PREFIX \o banner.url \o HTML_SUFFIX)]

\* ----------------------------------------------------- CumulativeWeights
AsIs == [kind |-> "AsIs", p |-> <<>>]
Specific(p) == [kind |-> "Specific", p |-> p]

CumulativeWeights_new == [weights |-> <<>>, idx_projection |-> AsIs]
with_projection == [weights |-> <<>>, idx_projection |-> Specific(<<>>)]

\* mutant: the weight is pushed as it is, not added to the last prefix sum
add_weight_alone(cw, weight) ==
    [cw EXCEPT !.weights = Append(cw.weights, weight)]

add_weight(cw, weight) ==
    LET last_weight == IF Len(cw.weights) = 0 THEN 0 ELSE Last(cw.weights)
    IN  [cw EXCEPT !.weights = Append(cw.weights, last_weight + weight)]

\* defined on a table with a Specific projection only (the source panics otherwise)
add_weight_for_idx(cw, weight, idx) ==
    add_weight([cw EXCEPT !.idx_projection = Specific(Append(cw.idx_projection.p, idx))],
               weight)

\* mutant: the search goes on below mid - 1 instead of below mid
RECURSIVE binary_search_loop_below(_, _, _, _)
binary_search_loop_below(v, x, lo, hi) ==
    IF lo >= hi THEN [found |-> FALSE, idx |-> lo]
    ELSE LET mid == lo + ((hi - lo) \div 2)
         IN  IF At(v, mid) = x THEN [found |-> TRUE, idx |-> mid]
             ELSE IF At(v, mid) < x THEN binary_search_loop_below(v, x, mid + 1, hi)
             ELSE binary_search_loop_below(v, x, lo, mid - 1)

\* slice::binary_search: [found, idx]; idx is the insertion point when not found
RECURSIVE binary_search_loop(_, _, _, _)
binary_search_loop(v, x, lo, hi) ==
    IF lo >= hi THEN [found |-> FALSE, idx |-> lo]
    ELSE LET mid == lo + ((hi - lo) \div 2)
         IN  IF At(v, mid) = x THEN [found |-> TRUE, idx |-> mid]
             ELSE IF At(v, mid) < x THEN binary_search_loop(v, x, mid + 1, hi)
             ELSE binary_search_loop(v, x, lo, mid)

binary_search(v, x) == binary_search_loop(v, x, 0, Len(v))

project(idx_projection, idx) ==
    IF idx_projection.kind = "AsIs" THEN idx ELSE At(idx_projection.p, idx)

\* the values gen_range(0, max + 1) can return; nothing is drawn for < 2 weights
RndRange(cw) == IF Len(cw.weights) < 2 THEN {0} ELSE 0..Last(cw.weights)

\* mutant: the selected table position is returned without its projection
select_uniformly_unprojected(cw, rnd) ==
    IF Len(cw.weights) = 0 THEN None
    ELSE Some(IF Len(cw.weights) = 1 THEN 0 ELSE binary_search(cw.weights, rnd).idx)

select_uniformly(cw, rnd) ==
    IF Len(cw.weights) = 0 THEN None
    ELSE LET idx == IF Len(cw.weights) = 1 THEN 0
                    ELSE binary_search(cw.weights, rnd).idx
         IN  Some(project(cw.idx_projection, idx))

\* ------------------------------------------------------- InMemoryStorage
EmptyIndex == [c \in {} |-> <<>>]

\* mutant: and_modify does not push, only a new category gets the banner
index_entry_new_only(idx, category, banner_idx) ==
    IF category \in DOMAIN idx
    THEN idx
    ELSE [c \in DOMAIN idx \cup {category} |->
            IF c = category THEN <<banner_idx>> ELSE idx[c]]

\* index.entry(category).and_modify(push banner_idx).or_insert_with(vec![banner_idx])
index_entry(idx, category, banner_idx) ==
    IF category \in DOMAIN idx
    THEN [idx EXCEPT ![category] = Append(@, banner_idx)]
    ELSE [c \in DOMAIN idx \cup {category} |->
            IF c = category THEN <<banner_idx>> ELSE idx[c]]

RECURSIVE index_categories(_, _, _)
index_categories(idx, categories, banner_idx) ==
    IF categories = <<>> THEN idx
    ELSE index_categories(index_entry(idx, Head(categories), banner_idx),
                          Tail(categories), banner_idx)

\* mutant: add_banner without the check of the categories
add_banner_result_any_categories(url, shows_amount, categories) ==
    IF url = "" THEN "IllegalUrl"
    ELSE IF shows_amount = 0 THEN "IllegalShowsAmount"
    ELSE "Ok"

\* mutant: the categories are checked first and the url last
add_banner_result_reversed(url, shows_amount, categories) ==
    IF categories = <<>> THEN "EmptyCategories"
    ELSE IF shows_amount = 0 THEN "IllegalShowsAmount"
    ELSE IF url = "" THEN "IllegalUrl"
    ELSE "Ok"

add_banner_result(url, shows_amount, categories) ==
    IF url = "" THEN "IllegalUrl"
    ELSE IF shows_amount = 0 THEN "IllegalShowsAmount"
    ELSE IF categories = <<>> THEN "EmptyCategories"
    ELSE "Ok"

\* mutant: a category that is not in the index contributes the first banner
RECURSIVE flatten_categories_unknown(_, _)
flatten_categories_unknown(idx, categories) ==
    IF categories = <<>> THEN <<>>
    ELSE (IF Head(categories) \in DOMAIN idx THEN idx[Head(categories)]
          ELSE IF DOMAIN idx = {} THEN <<>> ELSE <<0>>)
         \o flatten_categories_unknown(idx, Tail(categories))

\* categories.iter().filter_map(|c| index.get(c)).flatten()
RECURSIVE flatten_categories(_, _)
flatten_categories(idx, categories) ==
    IF categories = <<>> THEN <<>>
    ELSE (IF Head(categories) \in DOMAIN idx THEN idx[Head(categories)] ELSE <<>>)
         \o flatten_categories(idx, Tail(categories))

\* mutant: the filter keeps every banner that can show, whatever its categories
filter_by_categories_any(bs, idx, categories) ==
    IF categories = <<>> THEN [kind |-> "All", indexes |-> {}]
    ELSE [kind |-> "Slice",
          indexes |-> {i \in 0..(Len(bs) - 1) : can_show(At(bs, i))}]

\* mutant: the filter keeps the exhausted banners
filter_by_categories_exhausted(bs, idx, categories) ==
    IF categories = <<>> THEN [kind |-> "All", indexes |-> {}]
    ELSE LET flat == flatten_categories(idx, categories)
         IN  [kind |-> "Slice", indexes |-> {flat[i] : i \in DOMAIN flat}]

\* FilterResult: All, or Slice with the HashSet of indexes
filter_by_categories(bs, idx, categories) ==
    IF categories = <<>> THEN [kind |-> "All", indexes |-> {}]
    ELSE LET flat == flatten_categories(idx, categories)
         IN  [kind |-> "Slice",
              indexes |-> {flat[i] : i \in {j \in DOMAIN flat : can_show(At(bs, flat[j]))}}]

\* the orders in which a HashSet can be iterated: every order of its elements
IterationOrders(S) ==
    {o \in [1..Cardinality(S) -> S] : \A i, j \in DOMAIN o : i # j => o[i] # o[j]}

\* mutant: the weight of a banner is its shows_left
RECURSIVE get_cumulative_weights_loop_left(_, _, _)
get_cumulative_weights_loop_left(bs, order, weights) ==
    IF order = <<>> THEN weights
    ELSE get_cumulative_weights_loop_left(bs, Tail(order),
            add_weight_for_idx(weights, At(bs, Head(order)).shows_left, Head(order)))

RECURSIVE get_cumulative_weights_loop(_, _, _)
get_cumulative_weights_loop(bs, order, weights) ==
    IF order = <<>> THEN weights
    ELSE get_cumulative_weights_loop(bs, Tail(order),
            add_weight_for_idx(weights, At(bs, Head(order)).shows_amount, Head(order)))

get_cumulative_weights(bs, order) ==
    get_cumulative_weights_loop(bs, order, with_projection)

\* select_uniformly().and_then(|idx| banners.get_mut(idx)).and_then(|b| b.show_html())
show_html(bs, weights, rnd) ==
    LET sel == select_uniformly(weights, rnd)
    IN  IF ~IsSome(sel) \/ Unwrap(sel) >= Len(bs)
        THEN [banners |-> bs, html |-> None, idx |-> None]
        ELSE LET r == Banner_show_html(At(bs, Unwrap(sel)))
             IN  [banners |-> [bs EXCEPT ![Unwrap(sel) + 1] = r.banner],
                  html |-> r.html,
                  idx |-> IF IsSome(r.html) THEN sel ELSE None]

show_html_select_all(bs, cw, rnd) == show_html(bs, cw, rnd)

\* ------------------------------------------------------------ the history
NoRun == [cat |-> "", start |-> <<>>, results |-> <<>>]

\* shows_left of every banner
Left(bs) == [i \in DOMAIN bs |-> bs[i].shows_left]

\* a run: the requests <<c>> made one after another with no other call between
RunAfter(categories, bs, r) ==
    IF Len(categories) # 1 THEN NoRun
    ELSE IF run.cat = categories[1] /\ Len(run.results) <= MaxAmount
         THEN [run EXCEPT !.results = Append(@, [html |-> r.html, idx |-> r.idx])]
         ELSE [cat |-> categories[1],
               start |-> Left(bs),
               results |-> <<[html |-> r.html, idx |-> r.idx]>>]

\* ---------------------------------------------------------------- actions
Init ==
    /\ banners = <<>>
    /\ index = EmptyIndex
    /\ cumulative_weights = CumulativeWeights_new
    /\ last = [op |-> "new"]
    /\ inserted = <<>>
    /\ shown = <<>>
    /\ run = NoRun
    /\ util = [op |-> "new", cw |-> CumulativeWeights_new, before |-> CumulativeWeights_new,
               weight |-> 0, idx |-> 0, panic |-> ""]

AddBannerErr(url, shows_amount, categories) ==
    /\ add_banner_result(url, shows_amount, categories) # "Ok"
    /\ last' = [op |-> "add_banner", url |-> url, shows_amount |-> shows_amount,
                categories |-> categories,
                result |-> add_banner_result(url, shows_amount, categories)]
    /\ run' = NoRun
    /\ UNCHANGED <<banners, index, cumulative_weights, inserted, shown, util>>

AddBannerOk(url, shows_amount, categories) ==
    /\ add_banner_result(url, shows_amount, categories) = "Ok"
    /\ Len(banners) < MaxBanners
    /\ add_weight(cumulative_weights, shows_amount).weights[Len(banners) + 1] <= MaxWeight
    /\ LET banner_idx == Len(banners)
       IN  /\ banners' = Append(banners, Banner_new(url, shows_amount))
           /\ index' = index_categories(index, categories, banner_idx)
    /\ cumulative_weights' = add_weight(cumulative_weights, shows_amount)
    /\ last' = [op |-> "add_banner", url |-> url, shows_amount |-> shows_amount,
                categories |-> categories, result |-> "Ok"]
    /\ inserted' = Append(inserted, categories)
    /\ shown' = Append(shown, 0)
    /\ run' = NoRun
    /\ UNCHANGED util

AddBanner ==
    \E rec \in Records, shows_amount \in Amounts :
        \/ AddBannerErr(rec.url, shows_amount, rec.categories)
        \/ AddBannerOk(rec.url, shows_amount, rec.categories)

Served(categories, r) ==
    /\ banners' = r.banners
    /\ last' = [op |-> "get_banner_html", categories |-> categories,
                html |-> r.html, idx |-> r.idx, left |-> Left(banners)]
    /\ shown' = IF IsSome(r.idx)
                THEN [shown EXCEPT ![Unwrap(r.idx) + 1] = @ + 1]
                ELSE shown
    /\ run' = RunAfter(categories, banners, r)
    /\ UNCHANGED <<index, cumulative_weights, inserted, util>>

GetBannerHtmlAll(categories) ==
    /\ filter_by_categories(banners, index, categories).kind = "All"
    /\ \E rnd \in RndRange(cumulative_weights) :
          Served(categories, show_html_select_all(banners, cumulative_weights, rnd))

GetBannerHtmlSlice(categories) ==
    /\ filter_by_categories(banners, index, categories).kind = "Slice"
    /\ \E order \in IterationOrders(filter_by_categories(banners, index, categories).indexes) :
          LET weights == get_cumulative_weights(banners, order)
          IN  \E rnd \in RndRange(weights) :
                 Served(categories, show_html(banners, weights, rnd))

GetBannerHtml ==
    \E categories \in GetCategories :
        \/ GetBannerHtmlAll(categories)
        \/ GetBannerHtmlSlice(categories)

Next == AddBanner \/ GetBannerHtml

Spec == Init /\ [][Next]_vars

\* ------------------------------------- util::cumulative_weights (standalone)
\* CumulativeWeights of src/util/cumulative_weights.rs: new, with_projection
\* and IdxProjection are those of storage.rs; add_weight has a check of its own.
\* A call returns the table as the call left it and the panic message, "" if
\* it returned.
util_add_weight(cw, weight) ==
    IF cw.idx_projection # AsIs
    THEN [cw |-> cw, panic |-> "Can't add weight without index projetion"]
    ELSE LET last_weight == IF Len(cw.weights) = 0 THEN 0 ELSE Last(cw.weights)
         IN  [cw |-> [cw EXCEPT !.weights = Append(cw.weights, last_weight + weight)],
              panic |-> ""]

util_add_weight_for_idx(cw, weight, idx) ==
    IF cw.idx_projection.kind = "Specific"
    THEN util_add_weight(
            [cw EXCEPT !.idx_projection = Specific(Append(cw.idx_projection.p, idx))],
            weight)
    ELSE [cw |-> cw, panic |-> "Can't add projection"]

UtilMain == <<banners, index, cumulative_weights, last, inserted, shown, run>>

UtilNew ==
    /\ util' = [op |-> "new", cw |-> CumulativeWeights_new, before |-> util.cw,
                weight |-> 0, idx |-> 0, panic |-> ""]
    /\ UNCHANGED UtilMain

UtilWithProjection ==
    /\ util' = [op |-> "with_projection", cw |-> with_projection, before |-> util.cw,
                weight |-> 0, idx |-> 0, panic |-> ""]
    /\ UNCHANGED UtilMain

\* a table that panicked is not used again
UtilAddWeight ==
    /\ util.panic = ""
    /\ Len(util.cw.weights) < MaxTableLen
    /\ \E weight \in Amounts :
          LET r == util_add_weight(util.cw, weight)
          IN  util' = [op |-> "add_weight", cw |-> r.cw, before |-> util.cw,
                       weight |-> weight, idx |-> 0, panic |-> r.panic]
    /\ UNCHANGED UtilMain

UtilAddWeightForIdx ==
    /\ util.panic = ""
    /\ Len(util.cw.weights) < MaxTableLen
    /\ \E weight \in Amounts, idx \in 0..MaxBanners :
          LET r == util_add_weight_for_idx(util.cw, weight, idx)
          IN  util' = [op |-> "add_weight_for_idx", cw |-> r.cw, before |-> util.cw,
                       weight |-> weight, idx |-> idx, panic |-> r.panic]
    /\ UNCHANGED UtilMain

NextUtil == UtilNew \/ UtilWithProjection \/ UtilAddWeight \/ UtilAddWeightForIdx

SpecUtil == Init /\ [][NextUtil]_vars

\* ------------------------------------------------------------- the claims
Range(v) == {v[i] : i \in DOMAIN v}
Markup(banner) == Some(HTML_PREFIX \o banner.url \o HTML_SUFFIX)
IsGet == last.op = "get_banner_html"
IsAdd == last.op = "add_banner"
\* banner b (1-based) was added with one of the categories
Tagged(b, categories) == Range(inserted[b]) \cap Range(categories) # {}

\* C1: however the calls of get_banner_html of any callers are ordered, the
\* calls that returned the markup of a banner are never more than its
\* shows_amount.
C1_ShownAtMostTotal ==
    \A b \in DOMAIN banners : shown[b] <= banners[b].shows_amount

\* a banner was shown shows_amount = 2 times and a further call that drew it
\* got nothing
C1_Witness ==
    /\ IsGet /\ last.categories = <<>> /\ ~IsSome(last.html)
    /\ Len(banners) = 1
    /\ banners[1].shows_amount = 2 /\ shown[1] = 2

\* C3: when banner b has all its N = shows_amount impressions left and is the
\* only banner of category c with impressions left, the first N requests
\* <<c>> of a run each return the markup of b and the next one returns None.
C3_RunOfTotal ==
    \A b \in DOMAIN banners :
        (/\ run.cat # ""
         /\ run.cat \in Range(inserted[b])
         /\ run.start[b] = banners[b].shows_amount
         /\ \A o \in DOMAIN banners \ {b} :
               run.cat \in Range(inserted[o]) => run.start[o] = 0)
        => \A k \in DOMAIN run.results :
              /\ k <= banners[b].shows_amount =>
                    /\ run.results[k].html = Markup(banners[b])
                    /\ run.results[k].idx = Some(b - 1)
              /\ k = banners[b].shows_amount + 1 =>
                    /\ run.results[k].html = None
                    /\ run.results[k].idx = None

\* the second of two banners, of 2 impressions, was requested 3 times by its
\* category, while the first banner had its impressions left
C3_Witness ==
    /\ Len(banners) = 2
    /\ run.cat = "y" /\ Len(run.results) = 3
    /\ inserted[2] = <<"y">> /\ inserted[1] = <<"x", "x">>
    /\ run.start = <<1, 2>>
    /\ run.results[3].html = None

\* C4: add_banner returns an error exactly when the url is empty, the amount
\* is 0 or the categories are empty; the error names a rule the record
\* breaks, and the one rule when it breaks one only; a rejected add_banner
\* leaves the banners, the index and the global table as they were.
C4_RejectedInsert ==
    [][last'.op = "add_banner" =>
        LET u == last'.url
            n == last'.shows_amount
            c == last'.categories
            res == last'.result
        IN  /\ res \in {"Ok", "IllegalUrl", "IllegalShowsAmount", "EmptyCategories"}
            /\ (res # "Ok") <=> (u = "" \/ n <= 0 \/ c = <<>>)
            /\ res = "IllegalUrl" => u = ""
            /\ res = "IllegalShowsAmount" => n <= 0
            /\ res = "EmptyCategories" => c = <<>>
            /\ (u = "" /\ n > 0 /\ c # <<>>) => res = "IllegalUrl"
            /\ (u # "" /\ n <= 0 /\ c # <<>>) => res = "IllegalShowsAmount"
            /\ (u # "" /\ n > 0 /\ c = <<>>) => res = "EmptyCategories"
            /\ res # "Ok" =>
                  /\ banners' = banners
                  /\ index' = index
                  /\ cumulative_weights' = cumulative_weights
    ]_vars

\* a record without categories was rejected by a storage that holds a banner
C4_Witness ==
    /\ IsAdd /\ last.result = "EmptyCategories"
    /\ last.url # "" /\ last.shows_amount > 0
    /\ Len(banners) = 1 /\ DOMAIN index = {"x", "y"}

\* C5: a request with categories never returns a banner that was added with
\* none of them.
C5_OnlyRequestedCategories ==
    (IsGet /\ last.categories # <<>> /\ IsSome(last.html)) =>
        /\ IsSome(last.idx)
        /\ Unwrap(last.idx) < Len(banners)
        /\ Tagged(Unwrap(last.idx) + 1, last.categories)
        /\ last.html = Markup(banners[Unwrap(last.idx) + 1])

\* a request <<z, y>> returned the second banner while the first, of another
\* category and another url, had impressions left
C5_Witness ==
    /\ IsGet /\ last.categories = <<"z", "y">> /\ last.idx = Some(1)
    /\ Len(banners) = 2
    /\ inserted[1] = <<"x">> /\ last.left[1] > 0
    /\ banners[1].url # banners[2].url

\* C6: one call after another, a request with categories returns markup
\* exactly when a banner added with one of the categories had impressions
\* left before the call.
C6_MarkupWhenAvailable ==
    (IsGet /\ last.categories # <<>>) =>
        (IsSome(last.html) <=>
            \E b \in DOMAIN banners :
                Tagged(b, last.categories) /\ last.left[b] > 0)

\* a request of two categories returned markup while one banner of the
\* categories was exhausted and the other was not
C6_Witness ==
    /\ IsGet /\ last.categories = <<"x", "y">> /\ IsSome(last.html)
    /\ Len(banners) = 2
    /\ \E b, o \in DOMAIN banners :
          /\ Tagged(b, last.categories) /\ last.left[b] = 0
          /\ Tagged(o, last.categories) /\ last.left[o] > 0

\* C7: one call after another, a request without categories returns None
\* only if no banner of the storage had impressions left before the call.
C7_NoneOnlyWhenAllExhausted ==
    (IsGet /\ last.categories = <<>> /\ ~IsSome(last.html)) =>
        \A b \in DOMAIN banners : last.left[b] = 0

\* the r of 0..Last(weights) for which the table selects banner index i
Owned(cw, i) == {r \in RndRange(cw) : select_uniformly(cw, r) = Some(i)}
\* the weight the table was given for its position k (1-based)
WeightAt(cw, k) == cw.weights[k] - (IF k = 1 THEN 0 ELSE cw.weights[k - 1])

\* C8: in a table of two or more weights the numbers of values r that select
\* two candidates are in the ratio of the candidates' weights.
C8_DrawProportional ==
    Len(cumulative_weights.weights) >= 2 =>
        \A i, j \in DOMAIN cumulative_weights.weights :
            Cardinality(Owned(cumulative_weights, i - 1)) * WeightAt(cumulative_weights, j)
          = Cardinality(Owned(cumulative_weights, j - 1)) * WeightAt(cumulative_weights, i)

\* C9: every banner has 0 <= shows_left <= shows_amount.
C9_LeftWithinTotal ==
    \A b \in DOMAIN banners :
        /\ 0 <= banners[b].shows_left
        /\ banners[b].shows_left <= banners[b].shows_amount

\* a request drew a banner that had nothing left, with both banners at 0
C9_Witness ==
    /\ IsGet /\ ~IsSome(last.html) /\ last.categories = <<>>
    /\ Len(banners) = 2
    /\ \A b \in DOMAIN banners : banners[b].shows_left = 0 /\ shown[b] = banners[b].shows_amount

\* C10: get_banner_html leaves the number of banners, their url and
\* shows_amount, the index and the global table as they were; when it returns
\* markup, one banner has one impression less and the markup is the prefix,
\* that banner's url and the suffix; when it returns None nothing changed.
C10_ServeFrame ==
    [][last'.op = "get_banner_html" =>
        /\ Len(banners') = Len(banners)
        /\ \A b \in DOMAIN banners :
              /\ banners'[b].url = banners[b].url
              /\ banners'[b].shows_amount = banners[b].shows_amount
        /\ index' = index
        /\ cumulative_weights' = cumulative_weights
        /\ IF IsSome(last'.html)
           THEN \E b \in DOMAIN banners :
                   /\ banners'[b].shows_left = banners[b].shows_left - 1
                   /\ \A o \in DOMAIN banners \ {b} : banners'[o] = banners[o]
                   /\ last'.html = Some(HTML_PREFIX \o banners[b].url \o HTML_SUFFIX)
           ELSE banners' = banners
    ]_vars

\* a request returned the markup of the second of two banners of different
\* urls, which went from 2 impressions to 1
C10_Witness ==
    /\ IsGet /\ last.idx = Some(1)
    /\ last.html = Some(HTML_PREFIX \o "b" \o HTML_SUFFIX)
    /\ Len(banners) = 2 /\ banners[1].url = "a"
    /\ last.left = <<1, 2>> /\ Left(banners) = <<1, 1>>

\* the categories of a request that are keys of the index
Known(categories) == SelectSeq(categories, LAMBDA c : c \in DOMAIN index)

\* C11: get_banner_html returns None and changes nothing when the storage has
\* no banner (whatever the categories, the empty list too) and when none of
\* the requested categories is a key of the index; a category that is not a
\* key adds no candidate to those of the other categories of the request.
C11_NoCandidates ==
    [][last'.op = "get_banner_html" =>
        /\ (\/ Len(banners) = 0
            \/ /\ last'.categories # <<>>
               /\ Range(last'.categories) \cap DOMAIN index = {})
           => /\ last'.html = None
              /\ banners' = banners
              /\ index' = index
              /\ cumulative_weights' = cumulative_weights
        /\ (last'.categories # <<>> /\ Known(last'.categories) # <<>>)
           => filter_by_categories(banners, index, last'.categories).indexes
              = filter_by_categories(banners, index, Known(last'.categories)).indexes
    ]_vars

\* a request <<z, y>> got nothing from a storage whose only banner, of
\* category x, had impressions left
C11_Witness ==
    /\ IsGet /\ last.categories = <<"z", "y">> /\ last.html = None
    /\ Len(banners) = 1 /\ DOMAIN index = {"x"}
    /\ banners[1].shows_left > 0

\* the tables get_banner_html can draw from in this state: the global table
\* and, for every request with categories and every iteration order of its
\* filtered indexes, the table get_cumulative_weights builds
SliceTables(categories) ==
    {get_cumulative_weights(banners, order) :
        order \in IterationOrders(filter_by_categories(banners, index, categories).indexes)}
EphemeralTables == UNION {SliceTables(categories) : categories \in GetCategories \ {<<>>}}
Tables == {cumulative_weights} \cup EphemeralTables

\* the 0-based positions of a table whose prefix sum is >= r
AtLeast(cw, r) == {k \in 0..(Len(cw.weights) - 1) : At(cw.weights, k) >= r}
Min(S) == CHOOSE k \in S : \A o \in S : k <= o

\* C12: in a table of two or more weights, for every r of 0..W a position
\* with prefix sum >= r exists, the draw takes the smallest one, it is below
\* the length of the prefix sums and of the projection list, and the banner
\* index it is projected to is below the number of banners.
C12_DrawSmallestAtLeast ==
    \A cw \in Tables :
        Len(cw.weights) >= 2 =>
            \A r \in 0..Last(cw.weights) :
                /\ AtLeast(cw, r) # {}
                /\ binary_search(cw.weights, r).idx = Min(AtLeast(cw, r))
                /\ binary_search(cw.weights, r).idx < Len(cw.weights)
                /\ cw.idx_projection.kind = "Specific" =>
                      binary_search(cw.weights, r).idx < Len(cw.idx_projection.p)
                /\ select_uniformly(cw, r)
                      = Some(project(cw.idx_projection, Min(AtLeast(cw, r))))
                /\ Unwrap(select_uniformly(cw, r)) < Len(banners)

\* a request of two categories drew from a table of the two banners, of
\* weights 1 and 2, and returned the second
C12_Witness ==
    /\ IsGet /\ last.categories = <<"x", "y">> /\ last.idx = Some(1)
    /\ Len(banners) = 2 /\ last.left = <<1, 2>>
    /\ cumulative_weights.weights = <<1, 3>>
    /\ Tagged(1, last.categories) /\ Tagged(2, last.categories)

\* the sum of the shows_amount of the first n banners
RECURSIVE SumAmounts(_)
SumAmounts(n) == IF n = 0 THEN 0 ELSE SumAmounts(n - 1) + banners[n].shows_amount

\* C13: the global table has the identity projection and one entry per
\* banner; entry i is the sum of the shows_amount of banners 0..i, whatever
\* their shows_left; the entries increase strictly and the last one is the
\* sum of all shows_amount.
C13_GlobalTable ==
    LET w == cumulative_weights.weights
    IN  /\ cumulative_weights.idx_projection = AsIs
        /\ Len(w) = Len(banners)
        /\ \A i \in DOMAIN w : w[i] = SumAmounts(i)
        /\ \A i \in DOMAIN w : i > 1 => w[i - 1] < w[i]
        /\ Len(w) > 0 => Last(w) = SumAmounts(Len(banners))

\* after two accepted records, a request that took an impression and a
\* rejected record the table is <<1, 3>>
C13_Witness ==
    /\ IsAdd /\ last.result = "IllegalShowsAmount"
    /\ Len(banners) = 2
    /\ cumulative_weights.weights = <<1, 3>>
    /\ Left(banners) = <<1, 1>>

\* every position of the index is a banner, banner p is listed under c
\* exactly if it was added with c, and every list is in non-decreasing order
IndexSound ==
    /\ \A c \in DOMAIN index : \A i \in DOMAIN index[c] :
          /\ 0 <= index[c][i] /\ index[c][i] < Len(banners)
          /\ i > 1 => index[c][i - 1] <= index[c][i]
    /\ \A p \in DOMAIN banners : \A c \in {"x", "y", "z"} :
          (c \in DOMAIN index /\ (p - 1) \in Range(index[c]))
             <=> c \in Range(inserted[p])

\* v is the beginning of w
IsPrefix(v, w) == Len(v) <= Len(w) /\ \A i \in DOMAIN v : w[i] = v[i]

\* C14: after every call the index is sound (see IndexSound), and a call
\* keeps every banner at its position, with its url, shows_amount and
\* categories, keeps every key of the index and only appends to its lists;
\* an accepted add_banner gives the new banner the next free position.
C14_IndexPositions ==
    [][ /\ IndexSound'
        /\ Len(banners) <= Len(banners')
        /\ Len(inserted') = Len(banners')
        /\ IsPrefix(inserted, inserted')
        /\ \A p \in DOMAIN banners :
              /\ banners'[p].url = banners[p].url
              /\ banners'[p].shows_amount = banners[p].shows_amount
        /\ \A c \in DOMAIN index :
              /\ c \in DOMAIN index'
              /\ IsPrefix(index[c], index'[c])
              /\ \A i \in DOMAIN index'[c] :
                    i > Len(index[c]) => index'[c][i] = Len(banners)
        /\ (last'.op = "add_banner" /\ last'.result = "Ok") =>
              /\ Len(banners') = Len(banners) + 1
              /\ inserted'[Len(banners')] = last'.categories
              /\ \A c \in Range(last'.categories) :
                    c \in DOMAIN index' /\ Last(index'[c]) = Len(banners)
    ]_vars

\* the second banner, whose record lists x twice, was added to a storage
\* whose first banner has both categories: x lists 0, 1, 1 and y lists 0
C14_Witness ==
    /\ IsAdd /\ last.result = "Ok" /\ last.categories = <<"x", "x">>
    /\ Len(banners) = 2
    /\ index = [c \in {"x", "y"} |-> IF c = "x" THEN <<0, 1, 1>> ELSE <<0>>]

\* C15: for every request with categories, the table built from the filtered
\* indexes has a projection list as long as its prefix sums, which holds
\* each banner that was added with a requested category and has shows_left
\* > 0 exactly once and no other banner, and the weight of each entry is the
\* shows_amount of its banner.
C15_EphemeralTable ==
    \A categories \in GetCategories \ {<<>>} :
        \A cw \in SliceTables(categories) :
            LET p == cw.idx_projection.p
            IN  /\ cw.idx_projection.kind = "Specific"
                /\ Len(p) = Len(cw.weights)
                /\ Range(p) = {b - 1 : b \in {o \in DOMAIN banners :
                                  Tagged(o, categories) /\ banners[o].shows_left > 0}}
                /\ \A i, j \in DOMAIN p : i # j => p[i] # p[j]
                /\ \A k \in DOMAIN p :
                      WeightAt(cw, k) = At(banners, p[k]).shows_amount

\* a request <<x, x>> was answered from two banners that list x (one twice,
\* one with y too), when one of them had 1 of its 2 impressions left
C15_Witness ==
    /\ IsGet /\ last.categories = <<"x", "x">> /\ IsSome(last.html)
    /\ Len(banners) = 2
    /\ inserted = << <<"x", "x">>, <<"x", "y">> >>
    /\ banners[1].shows_amount = 2 /\ last.left = <<1, 1>>

\* p is in ascending order
Ascending(p) == \A i, j \in DOMAIN p : i < j => p[i] < p[j]

\* C16: for every request with categories the table is built in ascending
\* banner position, so that one storage state, one category list and one
\* random value r select one banner.
C16_AscendingTable ==
    \A categories \in GetCategories \ {<<>>} :
        /\ \A cw \in SliceTables(categories) : Ascending(cw.idx_projection.p)
        /\ \A cw1, cw2 \in SliceTables(categories) :
              \A r \in RndRange(cw1) :
                 select_uniformly(cw1, r) = select_uniformly(cw2, r)

\* C18: add_banner returns one result: IllegalUrl when the url is empty,
\* whatever the amount and the categories; else IllegalShowsAmount when the
\* amount is 0, whatever the categories; else EmptyCategories when the
\* categories are empty; else Ok.
C18_ErrorPrecedence ==
    IsAdd =>
        /\ last.url = "" => last.result = "IllegalUrl"
        /\ (last.url # "" /\ last.shows_amount = 0) =>
              last.result = "IllegalShowsAmount"
        /\ (last.url # "" /\ last.shows_amount # 0 /\ last.categories = <<>>) =>
              last.result = "EmptyCategories"
        /\ (last.url # "" /\ last.shows_amount # 0 /\ last.categories # <<>>) =>
              last.result = "Ok"

\* a record that breaks the three rules at once got IllegalUrl
C18_Witness ==
    /\ IsAdd /\ last.url = "" /\ last.shows_amount = 0 /\ last.categories = <<>>
    /\ last.result = "IllegalUrl"

\* C19: in util::cumulative_weights, add_weight_for_idx on a table with a
\* Specific projection returns, with the table that add_weight_for_idx of
\* storage.rs gives (idx appended to the projection list, the prefix sums one
\* longer by weight, both of one length); on a table with the AsIs projection
\* it panics.
C19_UtilAddWeightForIdx ==
    util.op = "add_weight_for_idx" =>
        IF util.before.idx_projection.kind = "Specific"
        THEN /\ util.panic = ""
             /\ util.cw = add_weight_for_idx(util.before, util.weight, util.idx)
             /\ Len(util.cw.idx_projection.p) = Len(util.cw.weights)
        ELSE util.panic # ""

====
